---- MODULE Spec2Model ----
(***************************************************************************)
(* RuledClient (seeker/src/client/ruled_client.rs): per-flow action        *)
(* resolution, connection registry, dispatch and proxy-backend failover.   *)
(*                                                                         *)
(* Every intercepted flow is handled by an independent task.  A task's     *)
(* position in handle_tcp / handle_udp is task[t].pc; each await and each  *)
(* access to shared state (the id counter, the registry, the SSClient's    *)
(* configuration) is one step, so that concurrent tasks interleave exactly *)
(* where the code lets them.                                               *)
(*                                                                         *)
(* Not modelled: the statistics task of lines 93-101, which only prints,   *)
(* and the wall-clock fields (connect_time and the duration of a line).    *)
(***************************************************************************)
EXTENDS Integers, Sequences, FiniteSets, TLC

\* ------------------------------------------------------------- bounds
MaxCalls == 3        \* handle_tcp / handle_udp calls started in one run
MaxServers == 3      \* length of conf.server_configs

\* conf.max_connect_errors (any value; the reads of connect_errors() range
\* over 0 .. max_connect_errors + 1)
max_connect_errors == 1

\* ------------------------------------------------------------- values
Action == {"Direct", "Proxy", "Reject", "Probe"}
None == "None"
OptAction == Action \cup {None}

\* config::Address is a SocketAddress or a DomainNameAddress.  The flows
\* of a run go to one destination: the destination only selects the key of
\* the rule lookup, whose answer is an input of every call, and is copied
\* into the Connection record.
Addresses ==
    { [kind |-> "DomainNameAddress", host |-> "example.com", port |-> 443] }

\* local socket addresses of intercepted flows
SockAddrs == {"s1", "s2"}

Ok == "Ok"
IoError == "IoError"                \* failure of list_user_proc_socks
BackendErrors == {"ConnRefused", "Reset"}
Results == {Ok} \cup BackendErrors

Uid == 1000

\* The lookup key of a destination (lines 106-109): a socket address is
\* looked up by its string form "ip:port", a domain name by the domain only.
domain(addr) ==
    IF addr.kind = "SocketAddress" THEN <<addr.host, addr.port>>
    ELSE <<addr.host>>

Keys == { domain(a) : a \in Addresses }

\* A rule set as the resolver sees it: action_for_domain on every key.
RuleSets == [Keys -> OptAction]

\* what action_for_domain can answer for a key
Answers(key) == { rules[key] : rules \in RuleSets }

\* ------------------------------------------------------------ backends
\* conf.server_configs: a non-empty list (new_ssclient expects entry 0) of
\* entries [name, pos], pos being the entry's 0-based index, which stands
\* for the rest of the entry (its address and keys).  Names are arbitrary
\* strings of the configuration and may repeat; the lists are enumerated up
\* to renaming (a new name is the next unused number).
CanonicalNames(s) ==
    \A i \in DOMAIN s :
        \/ s[i] = 1
        \/ \E j \in 1 .. (i - 1) : s[j] = s[i] \/ s[j] = s[i] - 1

ServerLists ==
    UNION { { [i \in 1 .. n |-> [name |-> s[i], pos |-> i - 1]] :
                s \in { x \in [1 .. n -> 1 .. n] : CanonicalNames(x) } } :
            n \in 1 .. MaxServers }

\* a name no entry of any list carries
UnknownName == 0

\* iter().position(|s| s.name() == old_server_name).unwrap_or(0), 0-based
RECURSIVE position(_, _, _)
position(configs, name, i) ==
    IF i > Len(configs) THEN {}
    ELSE IF configs[i].name = name THEN {i - 1}
    ELSE position(configs, name, i + 1)

unwrap_or(opt, d) == IF opt = {} THEN d ELSE CHOOSE x \in opt : TRUE

\* mutant: a name that is not found counts as the last entry
old_conf_index_defaults_to_last(configs, name) ==
    unwrap_or(position(configs, name, 1), Len(configs) - 1)

old_conf_index(configs, name) == unwrap_or(position(configs, name, 1), 0)

\* mutant: the successor stops at the last entry instead of wrapping
next_conf_index_saturates(configs, name) ==
    IF old_conf_index(configs, name) + 1 < Len(configs)
    THEN old_conf_index(configs, name) + 1
    ELSE Len(configs) - 1

next_conf_index(configs, name) ==
    (old_conf_index(configs, name) + 1) % Len(configs)

\* Vec::get(index) and Vec's [index], of a 0-based index
in_bounds(configs, index) == index >= 0 /\ index < Len(configs)

get(configs, index) == configs[index + 1]

\* ------------------------------------------------------------ resolver
\* socket_addr_belong_to_user (lines 228-233) on the outcome user_socks of
\* list_user_proc_socks.
\* list_user_proc_socks fails (ok = FALSE) or yields the local addresses of
\* the user's sockets.
SockQueries ==
    { [ok |-> FALSE, socks |-> {}] }
    \cup { [ok |-> TRUE, socks |-> S] : S \in SUBSET SockAddrs }

socket_addr_belong_to_user(remote_addr, user_socks) ==
    remote_addr \in user_socks.socks

\* lines 110-115: the filter is "off" without a uid; the query of line 112
\* fails ("error"), or tells whether the socket is the user's ("user") or
\* not ("other")
ownership(uid, remote_addr, user_socks) ==
    IF uid = {} THEN "off"
    ELSE IF ~user_socks.ok THEN "error"
    ELSE IF socket_addr_belong_to_user(remote_addr, user_socks) THEN "user"
    ELSE "other"

\* lines 110-115: pass_proxy after the if
pass_proxy(own) == own = "other"

\* lines 119-121: action_for_domain(&domain).unwrap_or_else(default_action);
\* found is what the rule engine answers for the key
lookup(found, default_action) == IF found # None THEN found ELSE default_action

\* mutant: pass_proxy is not consulted
rule_action_ignores_pass(pass, rule) == rule

\* lines 116-122
rule_action(pass, rule) == IF pass THEN "Direct" ELSE rule

\* mutant: a failed probe leaves the action as it was
probe_action_keeps_probe(reachable) == IF reachable THEN "Direct" ELSE "Probe"

\* mutant: the probe's outcome is not looked at, the action stays Probe
probe_action_unresolved(reachable) == "Probe"

\* mutant: the probe's answer is read the wrong way round
probe_action_inverted(reachable) == IF reachable THEN "Proxy" ELSE "Direct"

\* lines 125-129
probe_action(reachable) == IF reachable THEN "Direct" ELSE "Proxy"

\* ------------------------------------------------------------ registry
Connection(addr, action) ==
    [address |-> addr, sent_bytes |-> 0, recv_bytes |-> 0, action |-> action]

EmptyMap == [i \in {} |-> 0]

\* mutant: the record is built but not put into the map
insert_drops_record(map, key, value) == map

\* HashMap::insert
insert(map, key, value) ==
    [k \in DOMAIN map \cup {key} |-> IF k = key THEN value ELSE map[k]]

\* mutant: the record is looked up but left in the map
remove_keeps_entry(map, key) == map

\* HashMap::remove: the map afterwards, and the record taken out (if any)
remove(map, key) == [k \in DOMAIN map \ {key} |-> map[k]]

\* mutant: the removal's result is dropped
removed_is_dropped(map, key) == {}

removed(map, key) == IF key \in DOMAIN map THEN {map[key]} ELSE {}

\* mutant: the counter is read but not advanced
fetch_add_load_only(c) == c

\* mutant: the counter is advanced twice for one connection
fetch_add_twice(c) == c + 2

\* AtomicU64::fetch_add(1): the new value of the counter
fetch_add(c) == c + 1

\* mutant: the outcome is not looked at, every line is the "Close" one
lifecycle_line_always_close(ret, index, conn) ==
    [kind |-> "Close", error |-> Ok, index |-> index,
     address |-> conn.address, action |-> conn.action]

\* lines 204-210: the lifecycle line printed for a removed record
lifecycle_line(ret, index, conn) ==
    IF ret # Ok
    THEN [kind |-> "Interrupt", error |-> ret, index |-> index,
          address |-> conn.address, action |-> conn.action]
    ELSE [kind |-> "Close", error |-> Ok, index |-> index,
          address |-> conn.address, action |-> conn.action]

\* --------------------------------------------------------------- state
VARIABLES
    proxy_uid,        \* Option<u32>: {} or {uid}
    server_configs,   \* conf.server_configs
    ssconf,           \* the configuration the SSClient holds (its RwLock cell)
    counter,          \* the shared AtomicU64
    connections,      \* the registry: id -> Connection
    task,             \* the locals and position of every handler task
    calls,            \* history: handle_tcp / handle_udp calls started
    issued,           \* history: the ids returned by fetch_add, in order
    inserts,          \* history: id -> number of registry insertions
    removes           \* history: id -> number of removals that took a record

vars == <<proxy_uid, server_configs, ssconf, counter, connections, task,
          calls, issued, inserts, removes>>

shared == <<counter, connections, issued, inserts, removes>>
config == <<proxy_uid, server_configs>>

\* the handler tasks that run concurrently
Tasks == {"t1", "t2"}

Ids == 0 .. MaxCalls

NoIndex == -1

\* A task outside any call.  The fields after conn are history: of the
\* resolution (own, rule, probes: kept until the step after
\* get_action_for_addr returns), of the failover check (swapped and the
\* positions: kept while the task is in the Proxy arm), and of the call
\* (trace, lines: kept until the call returns).
IdleTask ==
    [pc |-> "idle", kind |-> "tcp", addr |-> CHOOSE a \in Addresses : TRUE,
     action |-> None, index |-> NoIndex, ret |-> None,
     connect_errors |-> 0, old_server_name |-> UnknownName, conn |-> {},
     own |-> "off", rule |-> None, probes |-> 0, probed |-> {},
     swapped |-> FALSE, seen_pos |-> 0, swap_pos |-> 0, new_pos |-> 0,
     guard |-> FALSE, trace |-> <<>>, lines |-> <<>>]

\* RuledClient::new (lines 77-103): the SSClient starts on entry 0, the
\* counter at 0 and the registry empty.
Init ==
    /\ proxy_uid \in { {}, {Uid} }
    /\ server_configs \in ServerLists
    /\ ssconf = get(server_configs, 0)
    /\ counter = 0
    /\ connections = EmptyMap
    /\ task = [t \in Tasks |-> IdleTask]
    /\ calls = 0
    /\ issued = <<>>
    /\ inserts = [i \in Ids |-> 0]
    /\ removes = [i \in Ids |-> 0]

Set(t, r) == task' = [task EXCEPT ![t] = r]

Event(t, e) == Append(task[t].trace, e)

\* the history of the resolution is dropped
Resolved(r) ==
    [r EXCEPT !.own = "off", !.rule = None, !.probes = 0, !.probed = {}]

\* the locals of the Proxy arm go out of scope, their history is dropped
LeaveArm(r) ==
    [r EXCEPT !.connect_errors = 0, !.old_server_name = UnknownName,
              !.swapped = FALSE, !.seen_pos = 0, !.swap_pos = 0, !.new_pos = 0]

\* mutant: the handler's result is returned at once (a ? on the match)
AfterMatch_returns_early(kind) == "return"

\* mutant: handle_udp deregisters and logs as handle_tcp does
AfterMatch_udp_deregisters(kind) == "remove"

\* where a handler continues once the match on the action has a result
AfterMatch(kind) == IF kind = "tcp" THEN "remove" ELSE "return"

\* mutant: Reject falls into the Direct arm
match_arm_reject_goes_direct(kind, action) ==
    CASE action \in {"Reject", "Direct"} -> "direct"
      [] action = "Proxy" -> IF kind = "tcp" THEN "connect_errors" ELSE "proxy"
      [] OTHER -> "unreachable"

\* mutant: handle_udp runs the failover check before its Proxy backend
match_arm_udp_checks(kind, action) ==
    CASE action = "Reject" -> AfterMatch(kind)
      [] action = "Direct" -> "direct"
      [] action = "Proxy" -> "connect_errors"
      [] OTHER -> "unreachable"

\* the arm the match on the action takes (lines 161-201 and 219-224)
match_arm(kind, action) ==
    CASE action = "Reject" -> AfterMatch(kind)
      [] action = "Direct" -> "direct"
      [] action = "Proxy" -> IF kind = "tcp" THEN "connect_errors" ELSE "proxy"
      [] OTHER -> "unreachable"

\* the value of the match when it has one without a backend
match_ret(action) == IF action = "Reject" THEN Ok ELSE None

\* mutant: the query's failure is taken as "not the user's socket"
propagate_swallows_error(r, e) == [r EXCEPT !.action = "Direct", !.pc = "resolved"]

\* the ? of lines 112 and 144 (217): the error is the handler's result
propagate(r, e) == [r EXCEPT !.pc = "return", !.ret = e]

\* ------------------------------------------------------------- actions
\* A flow enters handle_tcp (line 141) or handle_udp (line 215) and runs
\* get_action_for_addr up to its first await (lines 105-124): the ownership
\* query, the rule lookup, and the test for Probe.  The flow's socket address,
\* the outcome of the OS query and the rule set are the inputs.
Call(t) ==
    /\ task[t].pc = "idle"
    /\ calls < MaxCalls
    /\ calls' = calls + 1
    /\ \E kind \in {"tcp", "udp"}, addr \in Addresses :
       \E own \in { ownership(proxy_uid, remote_addr, user_socks) :
                       remote_addr \in SockAddrs, user_socks \in SockQueries },
          rule \in { lookup(found, default_action) :
                       found \in Answers(domain(addr)), default_action \in Action } :
         LET start == [IdleTask EXCEPT !.kind = kind, !.addr = addr, !.own = own]
         IN
         IF own = "error"
         THEN \* line 112: the ? returns the error from the handler
              Set(t, propagate(start, IoError))
         ELSE LET action == rule_action(pass_proxy(own), rule)
              IN  Set(t, [start EXCEPT
                              !.action = action, !.rule = rule,
                              !.pc = IF action = "Probe" THEN "probe"
                                     ELSE "resolved"])
    /\ UNCHANGED <<config, ssconf, shared>>

\* lines 125-129: probe_connectivity completes
Probe(t) ==
    /\ task[t].pc = "probe"
    /\ \E reachable \in BOOLEAN :
         Set(t, [task[t] EXCEPT !.action = probe_action(reachable),
                                !.probes = @ + 1,
                                !.probed = {reachable},
                                !.pc = "resolved"])
    /\ UNCHANGED <<config, ssconf, shared, calls>>

\* line 146, after get_action_for_addr has returned Ok(action) to handle_tcp
FetchAdd(t) ==
    /\ task[t].pc = "resolved"
    /\ task[t].kind = "tcp"
    /\ counter' = fetch_add(counter)
    /\ issued' = Append(issued, counter)
    /\ Set(t, [Resolved(task[t]) EXCEPT !.index = counter, !.pc = "insert"])
    /\ UNCHANGED <<config, ssconf, connections, inserts, removes, calls>>

\* mutant: the guard lives to the end of the handler
drop_at_end_of_handler(r) == r

\* the MutexGuard is dropped: at the end of the block of lines 147-159, to
\* which it is local, and at the end of the statement of line 203, of which
\* it is a temporary
drop(r) == [r EXCEPT !.guard = FALSE]

\* lines 149-161: the map insert, with which the block ends; then the match
\* on the action
Inserted(t) ==
    /\ connections' = insert(connections, task[t].index,
                             Connection(task[t].addr, task[t].action))
    /\ inserts' = [inserts EXCEPT ![task[t].index] = @ + 1]
    /\ Set(t, drop([task[t] EXCEPT !.trace = Event(t, "insert"),
                                   !.ret = match_ret(task[t].action),
                                   !.pc = match_arm("tcp", task[t].action)]))
    /\ UNCHANGED <<config, ssconf, counter, issued, removes, calls>>

\* lines 147-161: lock, insert, unlock; then the match on the action
Insert(t) ==
    /\ task[t].pc = "insert"
    /\ Inserted(t)

\* line 219, after get_action_for_addr has returned Ok(action) to handle_udp
Dispatch(t) ==
    /\ task[t].pc = "resolved"
    /\ task[t].kind = "udp"
    /\ Set(t, [Resolved(task[t]) EXCEPT
                  !.ret = match_ret(task[t].action),
                  !.pc = match_arm("udp", task[t].action)])
    /\ UNCHANGED <<config, ssconf, shared, calls>>

\* lines 164-167 and 221: the Direct backend's handler returns
DirectHandle(t) ==
    /\ task[t].pc = "direct"
    /\ \E r \in Results :
         Set(t, [task[t] EXCEPT !.ret = r, !.trace = Event(t, "direct"),
                                !.pc = AfterMatch(task[t].kind)])
    /\ UNCHANGED <<config, ssconf, shared, calls>>

\* line 171: client.connect_errors(), the first step of the failover check
ConnectErrors(t) ==
    /\ task[t].pc = "connect_errors"
    /\ \E e \in 0 .. (max_connect_errors + 1) :
         Set(t, [task[t] EXCEPT !.connect_errors = e,
                                !.trace = Event(t, "check"),
                                !.pc = "name"])
    /\ UNCHANGED <<config, ssconf, shared, calls>>

\* lines 172-173: client.name().await, then the test of the count
Name(t) ==
    /\ task[t].pc = "name"
    /\ Set(t, [task[t] EXCEPT
                  !.old_server_name = ssconf.name, !.seen_pos = ssconf.pos,
                  !.pc = IF task[t].connect_errors > max_connect_errors
                         THEN "change_conf" ELSE "proxy"])
    /\ UNCHANGED <<config, ssconf, shared, calls>>

\* lines 174-193: the successor is computed and installed.  The indexing of
\* line 183 and the expect of line 190 panic on an index out of bounds.
ChangeConf(t) ==
    /\ task[t].pc = "change_conf"
    /\ LET old == old_conf_index(server_configs, task[t].old_server_name)
           next == next_conf_index(server_configs, task[t].old_server_name)
       IN
       IF in_bounds(server_configs, old) /\ in_bounds(server_configs, next)
       THEN /\ ssconf' = get(server_configs, next)
            /\ Set(t, [task[t] EXCEPT
                          !.swapped = TRUE, !.swap_pos = ssconf.pos,
                          !.new_pos = get(server_configs, next).pos,
                          !.pc = "proxy"])
       ELSE /\ ssconf' = ssconf
            /\ Set(t, [task[t] EXCEPT !.pc = "panicked"])
    /\ UNCHANGED <<config, shared, calls>>

\* lines 195-198 and 222: the Proxy backend's handler returns
ProxyHandle(t) ==
    /\ task[t].pc = "proxy"
    /\ \E r \in Results :
         Set(t, [LeaveArm(task[t]) EXCEPT
                    !.ret = r, !.trace = Event(t, "proxy"),
                    !.pc = AfterMatch(task[t].kind)])
    /\ UNCHANGED <<config, ssconf, shared, calls>>

\* line 203: the map remove, with which the statement ends
Removed(t) ==
    /\ LET conn == removed(connections, task[t].index) IN
       /\ connections' = remove(connections, task[t].index)
       /\ removes' = IF conn = {} THEN removes
                     ELSE [removes EXCEPT ![task[t].index] = @ + 1]
       /\ Set(t, drop([task[t] EXCEPT !.conn = conn,
                                      !.trace = Event(t, "remove"),
                                      !.pc = "print"]))
    /\ UNCHANGED <<config, ssconf, counter, issued, inserts, calls>>

\* line 203: lock, remove, unlock
Remove(t) ==
    /\ task[t].pc = "remove"
    /\ Removed(t)

\* lines 204-210
PrintLine(t) ==
    /\ task[t].pc = "print"
    /\ IF task[t].conn = {}
       THEN Set(t, [task[t] EXCEPT !.pc = "return"])
       ELSE LET conn == CHOOSE c \in task[t].conn : TRUE IN
            Set(t, [task[t] EXCEPT
                       !.lines = Append(@, lifecycle_line(task[t].ret,
                                                          task[t].index, conn)),
                       !.trace = Event(t, "print"),
                       !.pc = "return"])
    /\ UNCHANGED <<config, ssconf, shared, calls>>

\* lines 212 and 224 (and the ? of lines 144 and 217): the handler returns
\* ret to its caller and the task is free for another flow
Return(t) ==
    /\ task[t].pc = "return"
    /\ Set(t, IdleTask)
    /\ UNCHANGED <<config, ssconf, shared, calls>>

Next ==
    \E t \in Tasks :
        \/ Call(t)
        \/ Probe(t)
        \/ FetchAdd(t)
        \/ Insert(t)
        \/ Dispatch(t)
        \/ DirectHandle(t)
        \/ ConnectErrors(t)
        \/ Name(t)
        \/ ChangeConf(t)
        \/ ProxyHandle(t)
        \/ Remove(t)
        \/ PrintLine(t)
        \/ Return(t)

Spec == Init /\ [][Next]_vars

\* The failover check on a name that no configured entry carries: the
\* SSClient's cell is owned by the SSClient, and RuledClient itself only ever
\* installs entries of server_configs (NameIsConfigured), so this input of
\* the check is drawn here, outside the list.
NoPos == -1

InitUnknown ==
    /\ proxy_uid \in { {}, {Uid} }
    /\ server_configs \in ServerLists
    /\ ssconf = [name |-> UnknownName, pos |-> NoPos]
    /\ counter = 0
    /\ connections = EmptyMap
    /\ task = [t \in Tasks |-> IdleTask]
    /\ calls = 0
    /\ issued = <<>>
    /\ inserts = [i \in Ids |-> 0]
    /\ removes = [i \in Ids |-> 0]

SpecUnknown == InitUnknown /\ [][Next]_vars

\* --------------------------------------------------- the failover rotation
\* Proxy-classified TCP connections that keep arriving while the error count
\* stays above the maximum.  The steps of the failover check (lines 171-194)
\* are those of Spec; the ids, the registry and the backend's outcome play no
\* part in the check and are left where Init puts them, so that connections
\* can arrive without end.

\* lines 141-169: a TCP flow is classified Proxy and enters the Proxy arm
Arrive(t) ==
    /\ task[t].pc = "idle"
    /\ Set(t, [IdleTask EXCEPT !.action = "Proxy",
                               !.pc = match_arm("tcp", "Proxy")])
    /\ UNCHANGED <<config, ssconf, shared, calls>>

\* line 171, connect_errors() returning a count above the maximum
ErrorsAbove(t) ==
    /\ ConnectErrors(t)
    /\ task'[t].connect_errors > max_connect_errors

\* lines 195-212: the Proxy backend's handler returns, and then handle_tcp
Leave(t) ==
    /\ task[t].pc = "proxy"
    /\ Set(t, IdleTask)
    /\ UNCHANGED <<config, ssconf, shared, calls>>

NextRotation ==
    \E t \in Tasks :
        \/ Arrive(t)
        \/ ErrorsAbove(t)
        \/ Name(t)
        \/ ChangeConf(t)
        \/ Leave(t)

\* The executor polls every task that can run, and flows keep arriving.
SpecRotation ==
    /\ Init
    /\ [][NextRotation]_vars
    /\ \A t \in Tasks :
          /\ WF_vars(Arrive(t))
          /\ WF_vars(ErrorsAbove(t))
          /\ WF_vars(Name(t))
          /\ WF_vars(ChangeConf(t))
          /\ WF_vars(Leave(t))

\* ----------------------------------------------------- the registry lock
\* The block of lines 147-159 and the statement of line 203 taken apart:
\* lock() returns the guard, the map operation runs under it, and the guard
\* is dropped when the block or the statement ends.  Tasks run on several threads, so another task can take a
\* step between the two.

\* no task holds the guard of the connections mutex
unlocked == \A u \in Tasks : ~task[u].guard

\* lines 148 and 203: self.connections.lock() returns once the mutex is free
Lock(t) ==
    /\ task[t].pc \in {"insert", "remove"}
    /\ unlocked
    /\ Set(t, [task[t] EXCEPT !.guard = TRUE,
                              !.pc = IF @ = "insert" THEN "inserting"
                                     ELSE "removing"])
    /\ UNCHANGED <<config, ssconf, shared, calls>>

\* lines 149-161, with the guard held
InsertLocked(t) ==
    /\ task[t].pc = "inserting"
    /\ Inserted(t)

\* line 203, with the guard held
RemoveLocked(t) ==
    /\ task[t].pc = "removing"
    /\ Removed(t)

NextLock ==
    \E t \in Tasks :
        \/ Call(t)
        \/ Probe(t)
        \/ FetchAdd(t)
        \/ Lock(t)
        \/ InsertLocked(t)
        \/ Dispatch(t)
        \/ DirectHandle(t)
        \/ ConnectErrors(t)
        \/ Name(t)
        \/ ChangeConf(t)
        \/ ProxyHandle(t)
        \/ RemoveLocked(t)
        \/ PrintLine(t)
        \/ Return(t)

SpecLock == Init /\ [][NextLock]_vars

\* ---------------------------------------------------------------- claims
InCall(t) == task[t].pc # "idle"

\* the task is in handle_tcp and past line 146
Registered(t) == task[t].kind = "tcp" /\ task[t].index # NoIndex

\* C1: get_action_for_addr never returns Probe: whenever it has returned,
\* the action is Direct, Proxy or Reject, and no handler ever reaches the
\* Probe arm of its match.
C1_NeverReturnsProbe ==
    \A t \in Tasks :
        /\ task[t].pc = "resolved"
              => task[t].action \in {"Direct", "Proxy", "Reject"}
        /\ task[t].pc # "unreachable"

\* a Probe rule has been resolved by a probe and returned
C1_Witness ==
    \E t \in Tasks :
        /\ task[t].pc = "resolved" /\ task[t].rule = "Probe"
        /\ task[t].probes = 1 /\ task[t].action = "Proxy"

\* C2: when the ownership query succeeds and says the socket is not the
\* configured user's, the resolved action is Direct whatever the rule set
\* answers, and no probe runs for the flow.
C2_NotOwnedIsDirect ==
    \A t \in Tasks :
        task[t].own = "other"
            => /\ task[t].pc = "resolved"
               /\ task[t].action = "Direct"
               /\ task[t].probes = 0

\* the rule set answers Probe for a flow that is not the user's
C2_Witness ==
    \E t \in Tasks :
        /\ task[t].own = "other" /\ task[t].rule = "Probe"
        /\ task[t].pc = "resolved" /\ task[t].kind = "tcp"

\* C3: the ids obtained from the counter are strictly increasing in the
\* order of the fetch_add steps (so pairwise distinct, none reused), and no
\* two handlers hold the same id.
C3_IdsStrictlyIncreasing ==
    /\ \A i, j \in DOMAIN issued : i < j => issued[i] < issued[j]
    /\ \A t, u \in Tasks :
           t # u /\ Registered(t) /\ Registered(u)
               => task[t].index # task[u].index

\* two handlers hold ids at the same time
C3_Witness ==
    /\ Len(issued) = 2
    /\ \A t \in Tasks : Registered(t) /\ task[t].pc = "insert"

\* C4: an id is inserted once and removed once; after its handler's removal
\* step the id is absent and stays absent; when no call is in progress the
\* registry is empty and every issued id has been inserted and removed.
C4_RemovedExactlyOnce ==
    /\ \A id \in Ids :
           /\ inserts[id] <= 1
           /\ removes[id] <= inserts[id]
           /\ id \in DOMAIN connections <=> inserts[id] = 1 /\ removes[id] = 0
    /\ \A t \in Tasks :
           Registered(t) /\ task[t].pc \in {"print", "return"}
               => /\ removes[task[t].index] = 1
                  /\ task[t].index \notin DOMAIN connections
    /\ (\A t \in Tasks : ~InCall(t))
           => /\ connections = EmptyMap
              /\ \A id \in Ids : id < counter => inserts[id] = 1 /\ removes[id] = 1

\* a failed and a completed connection have both been removed
C4_Witness ==
    /\ \E t \in Tasks :
           /\ Registered(t) /\ task[t].pc = "return"
           /\ task[t].ret \in BackendErrors
    /\ counter = 2
    /\ removes[0] = 1 /\ removes[1] = 1
    /\ connections = EmptyMap

Range(s) == { s[i] : i \in DOMAIN s }

\* the events of a TCP connection with the given action, in order
Lifecycle(action) ==
    CASE action = "Reject" -> <<"insert", "remove", "print">>
      [] action = "Direct" -> <<"insert", "direct", "remove", "print">>
      [] action = "Proxy" -> <<"insert", "check", "proxy", "remove", "print">>
      [] OTHER -> <<>>

IsPrefix(s, r) == Len(s) <= Len(r) /\ \A i \in DOMAIN s : s[i] = r[i]

\* the events a TCP handler at pc has behind it
Behind(pc, action) ==
    LET all == Lifecycle(action) IN
    CASE pc \in {"resolved", "insert"} -> <<>>
      [] pc \in {"direct", "connect_errors"} -> <<"insert">>
      [] pc \in {"name", "change_conf", "proxy"} -> <<"insert", "check">>
      [] pc = "remove" -> SubSeq(all, 1, Len(all) - 2)
      [] pc = "print" -> SubSeq(all, 1, Len(all) - 1)
      [] pc = "return" -> all
      [] OTHER -> <<>>

\* C5: the events of a TCP connection occur in the order insertion, backend
\* handler (if any), removal, lifecycle line, return, on the failure path as
\* on the success path: at every position the events so far are exactly the
\* ones before it in that order, and the handler returns with all of them.
C5_LifecycleOrder ==
    \A t \in Tasks :
        task[t].kind = "tcp" /\ InCall(t) /\ task[t].ret # IoError
            => /\ task[t].trace = Behind(task[t].pc, task[t].action)
               /\ IsPrefix(task[t].trace, Lifecycle(task[t].action))

\* a Proxy connection whose backend failed is about to return
C5_Witness ==
    \E t \in Tasks :
        /\ task[t].kind = "tcp" /\ task[t].pc = "return"
        /\ task[t].ret \in BackendErrors
        /\ task[t].trace = <<"insert", "check", "proxy", "remove", "print">>

\* the 0-based position of the first entry carrying the name, 0 when none
FirstWithName(configs, name) ==
    LET found == { i \in DOMAIN configs : configs[i].name = name } IN
    IF found = {} THEN 0
    ELSE (CHOOSE i \in found : \A j \in found : i <= j) - 1

DistinctNames(configs) ==
    \A i, j \in DOMAIN configs : configs[i].name = configs[j].name => i = j

N == Len(server_configs)

C7_UnknownNameCountsAsZero ==
    \A t \in Tasks :
        /\ task[t].pc # "panicked"
        /\ task[t].swapped
           /\ (\A i \in DOMAIN server_configs :
                   server_configs[i].name # task[t].old_server_name)
              => task[t].new_pos = (IF N = 1 THEN 0 ELSE 1)

\* the check has run on the unknown name, on several entries
C7_Witness ==
    \E t \in Tasks :
        /\ task[t].swapped /\ task[t].old_server_name = UnknownName
        /\ N = 3 /\ task[t].new_pos = 1 /\ ssconf.pos = 1

\* the same, on a single entry
C7_WitnessSingle ==
    \E t \in Tasks :
        /\ task[t].swapped /\ task[t].old_server_name = UnknownName
        /\ N = 1 /\ task[t].new_pos = 0

\* RuledClient installs entries of server_configs only: from RuledClient::new
\* the active name is always a configured one.
NameIsConfigured ==
    \E i \in DOMAIN server_configs : server_configs[i] = ssconf

\* C8: when the backend handler of a TCP connection fails, the handler
\* removes the id, prints the "Interrupt" line with that error and returns
\* the error; when it succeeds, it prints the "Close" line and returns Ok.
C8_OutcomeIsLoggedAndReturned ==
    \A t \in Tasks :
        Registered(t) /\ task[t].pc = "return"
            => /\ task[t].index \notin DOMAIN connections
               /\ Len(task[t].lines) = 1
               /\ task[t].lines[1].index = task[t].index
               /\ task[t].lines[1].error = task[t].ret
               /\ task[t].ret \in BackendErrors
                     => /\ task[t].lines[1].kind = "Interrupt"
                        /\ "direct" \in Range(task[t].trace)
                               \/ "proxy" \in Range(task[t].trace)
               /\ task[t].ret = Ok => task[t].lines[1].kind = "Close"
               /\ task[t].ret \in Results

\* a Direct connection whose backend failed returns the error, logged
C8_Witness ==
    \E t \in Tasks :
        /\ Registered(t) /\ task[t].pc = "return" /\ task[t].action = "Direct"
        /\ task[t].ret = "Reset"
        /\ task[t].lines[1].kind = "Interrupt" /\ task[t].lines[1].error = "Reset"

\* the positions of the backend handlers and of the failover check
BackendPcs == {"direct", "connect_errors", "name", "change_conf", "proxy"}

\* C9: a TCP flow resolved to Reject invokes no backend handler and runs no
\* failover check; it is registered and deregistered, returns Ok and prints
\* exactly one line, the "Close" one.
C9_RejectCallsNoBackend ==
    \A t \in Tasks :
        task[t].kind = "tcp" /\ task[t].action = "Reject"
            => /\ task[t].pc \notin BackendPcs
               /\ Range(task[t].trace) \cap {"direct", "proxy", "check"} = {}
               /\ ~task[t].swapped
               /\ task[t].pc \in {"remove", "print", "return"}
                     => task[t].ret = Ok /\ inserts[task[t].index] = 1
               /\ task[t].pc = "return"
                     => /\ task[t].trace = <<"insert", "remove", "print">>
                        /\ removes[task[t].index] = 1
                        /\ Len(task[t].lines) = 1
                        /\ task[t].lines[1].kind = "Close"

\* a rejected flow is about to return, its line printed
C9_Witness ==
    \E t \in Tasks :
        /\ task[t].kind = "tcp" /\ task[t].action = "Reject"
        /\ task[t].pc = "return" /\ Len(task[t].lines) = 1

\* C10 as stated: every handle_tcp call that returns, the ones that fail in
\* the ownership query included, has printed exactly one lifecycle line.
C10_EveryReturnHasOneLine ==
    \A t \in Tasks :
        task[t].kind = "tcp" /\ task[t].pc = "return"
            => Len(task[t].lines) = 1

\* C10 amended: a handle_tcp call that returns after its action was resolved
\* has printed exactly one lifecycle line, "Close" or "Interrupt"; a call
\* that fails in the ownership query returns the error with no line printed
\* and no id issued.
C10_OneLineUnlessQueryFails ==
    \A t \in Tasks :
        task[t].kind = "tcp" /\ task[t].pc = "return"
            => IF task[t].ret = IoError
               THEN task[t].lines = <<>> /\ task[t].index = NoIndex
               ELSE /\ Len(task[t].lines) = 1
                    /\ task[t].lines[1].kind \in {"Close", "Interrupt"}
                    /\ task[t].lines[1].index = task[t].index

\* one call returns the query's error while another returns with its line
C10_Witness ==
    \E t, u \in Tasks :
        /\ task[t].kind = "tcp" /\ task[t].pc = "return" /\ task[t].ret = IoError
        /\ task[u].kind = "tcp" /\ task[u].pc = "return"
        /\ task[u].ret \in BackendErrors /\ Len(task[u].lines) = 1

\* C11 as stated: the action of every record in the registry is Direct or
\* Proxy.
C11_StoredActionIsDirectOrProxy ==
    \A id \in DOMAIN connections :
        connections[id].action \in {"Direct", "Proxy"}

\* C11 amended: the action of every record in the registry is the resolved
\* action of the flow that holds the id, which is Direct, Proxy or Reject
\* and never Probe; a Reject record is stored from the insertion of line 149
\* until the removal of line 203.
C11_StoredActionIsResolved ==
    /\ \A id \in DOMAIN connections :
           /\ connections[id].action \in {"Direct", "Proxy", "Reject"}
           /\ \E t \in Tasks :
                  /\ Registered(t) /\ task[t].index = id
                  /\ task[t].action = connections[id].action
    /\ \A t \in Tasks :
           Registered(t) /\ task[t].action = "Reject" /\ task[t].pc = "remove"
               => /\ task[t].index \in DOMAIN connections
                  /\ connections[task[t].index].action = "Reject"

\* a Reject record and a Proxy record are in the registry together
C11_Witness ==
    \E i, j \in DOMAIN connections :
        /\ connections[i].action = "Reject"
        /\ connections[j].action = "Proxy"

\* the positions of handle_tcp between the insertion and the removal
InsertedPcs == {"direct", "connect_errors", "name", "change_conf", "proxy", "remove"}

\* C12 as stated: an id that has been issued to a flow whose removal has not
\* run yet is in the registry (the increment and the insertion being one
\* step), and every id in the registry belongs to such a flow.
C12_IssuedIffRegistered ==
    /\ \A t \in Tasks :
           Registered(t) /\ task[t].pc \notin {"print", "return"}
               => task[t].index \in DOMAIN connections
    /\ \A id \in DOMAIN connections :
           \E t \in Tasks :
               /\ Registered(t) /\ task[t].index = id
               /\ task[t].pc \notin {"print", "return"}

\* C12 amended: an id is in the registry if and only if the flow that was
\* issued the id has run its insertion (line 149) and not yet its removal
\* (line 203); the increment (line 146) and the insertion are two steps,
\* and between them the id is issued to a flow but not in the registry.
C12_RegisteredIffInserted ==
    /\ \A t \in Tasks :
           Registered(t)
               => (task[t].index \in DOMAIN connections
                      <=> task[t].pc \in InsertedPcs)
    /\ \A id \in DOMAIN connections :
           \E t \in Tasks : Registered(t) /\ task[t].index = id
    /\ \A t \in Tasks :
           task[t].pc = "insert"
               => /\ task[t].index \in Range(issued)
                  /\ task[t].index \notin DOMAIN connections

\* one flow holds an id that is not yet in the registry while the other
\* flow's id is
C12_Witness ==
    \E t, u \in Tasks :
        /\ task[t].pc = "insert" /\ task[t].index \notin DOMAIN connections
        /\ task[u].pc = "direct" /\ task[u].kind = "tcp"
        /\ task[u].index \in DOMAIN connections

\* the call of task t has failed in the ownership query
QueryFailed(t) == task[t].own = "error"

\* C13: a call whose ownership query fails holds the I/O error as its
\* result, with no id, no record, no backend call and no line; the step in
\* which the query fails and the step in which the call returns leave the
\* counter, the registry, the active backend and every other task as they
\* are.
C13_QueryFailureTouchesNothing ==
    /\ [](\A t \in Tasks :
             QueryFailed(t)
                 => /\ task[t].pc = "return" /\ task[t].ret = IoError
                    /\ task[t].index = NoIndex /\ task[t].conn = {}
                    /\ task[t].trace = <<>> /\ task[t].lines = <<>>
                    /\ ~task[t].swapped)
    /\ [][\A t \in Tasks :
             (QueryFailed(t) \/ task'[t].own = "error") /\ task'[t] # task[t]
                 => /\ counter' = counter
                    /\ connections' = connections
                    /\ ssconf' = ssconf
                    /\ \A u \in Tasks \ {t} : task'[u] = task[u]
                    /\ QueryFailed(t) => task'[t] = IdleTask]_vars

\* a TCP call has failed in the query while another connection is registered
C13_Witness ==
    \E t, u \in Tasks :
        /\ QueryFailed(t) /\ task[t].kind = "tcp" /\ task[t].pc = "return"
        /\ task[u].pc = "proxy" /\ task[u].kind = "tcp" /\ task[u].swapped
        /\ task[u].index \in DOMAIN connections
        /\ counter = 1

\* the call of task t is a call of handle_udp
InUdp(t) == task[t].kind = "udp"

\* C14: a handle_udp call has no id, no record and no line, and is only ever
\* resolving, in the Direct backend, in the Proxy backend or returning; at its
\* return exactly the backend of its action was called (none for Reject, which
\* returns Ok); no step of a handle_udp call changes the counter or the
\* registry.
C14_UdpLeavesRegistryAlone ==
    /\ [](\A t \in Tasks :
             InUdp(t)
                 => /\ task[t].index = NoIndex /\ task[t].conn = {}
                    /\ task[t].lines = <<>>
                    /\ task[t].pc \in {"probe", "resolved", "direct", "proxy",
                                       "return"}
                    /\ task[t].pc = "return" /\ ~QueryFailed(t)
                         => CASE task[t].action = "Direct"
                                   -> task[t].trace = <<"direct">>
                              [] task[t].action = "Proxy"
                                   -> task[t].trace = <<"proxy">>
                              [] task[t].action = "Reject"
                                   -> task[t].trace = <<>> /\ task[t].ret = Ok
                              [] OTHER -> FALSE)
    /\ [][\A t \in Tasks :
             (InUdp(t) \/ task'[t].kind = "udp") /\ task'[t] # task[t]
                 => /\ counter' = counter
                    /\ connections' = connections
                    /\ issued' = issued]_vars

\* a Proxy-classified UDP flow's backend has failed and the call returns,
\* while a TCP connection is registered
C14_Witness ==
    \E t, u \in Tasks :
        /\ InUdp(t) /\ task[t].pc = "return" /\ task[t].action = "Proxy"
        /\ task[t].ret \in BackendErrors
        /\ task[u].kind = "tcp" /\ task[u].index \in DOMAIN connections
        /\ counter > 0

\* the rule lookup of line 116 was made for the call of task t
LookedUp(t) == task[t].own \in {"off", "user"}

\* C15: once the action of a flow is resolved, a lookup that gave Probe was
\* followed by exactly one probe, and the action is Direct if the probe
\* succeeded and Proxy if it did not; a lookup that gave another action was
\* followed by no probe and the action is the lookup's.  A flow waits in the
\* probe only after a lookup that gave Probe, and has not probed before.
C15_ProbeOnceAndOnlyForProbe ==
    \A t \in Tasks :
        /\ task[t].pc = "resolved" /\ LookedUp(t)
             => IF task[t].rule = "Probe"
                THEN /\ task[t].probes = 1
                     /\ task[t].probed \in {{TRUE}, {FALSE}}
                     /\ task[t].action =
                          (IF task[t].probed = {TRUE} THEN "Direct" ELSE "Proxy")
                ELSE /\ task[t].probes = 0 /\ task[t].probed = {}
                     /\ task[t].action = task[t].rule
        /\ task[t].pc = "probe"
             => /\ LookedUp(t) /\ task[t].rule = "Probe"
                /\ task[t].probes = 0 /\ task[t].probed = {}

\* one flow's probe has failed and another's has succeeded
C15_Witness ==
    \E t, u \in Tasks :
        /\ task[t].pc = "resolved" /\ task[t].rule = "Probe"
        /\ task[t].probed = {FALSE} /\ task[t].action = "Proxy"
        /\ task[u].pc = "resolved" /\ task[u].rule = "Probe"
        /\ task[u].probed = {TRUE} /\ task[u].action = "Direct"

\* C16: the failover check is atomic: from a connection's read of the active
\* backend's name to its own swap no other connection's swap takes effect, so
\* while a connection is about to swap, and when it has swapped, the backend
\* it replaces is the one it read.
C16_CheckIsAtomic ==
    \A t \in Tasks :
        /\ task[t].pc = "change_conf" => ssconf.pos = task[t].seen_pos
        /\ task[t].pc = "proxy" /\ task[t].swapped
             => task[t].swap_pos = task[t].seen_pos

\* the call of task t is a Proxy-classified TCP connection that has read an
\* error count above the maximum and is about to install the successor
Rotating(t) ==
    /\ task[t].pc = "change_conf"
    /\ task[t].kind = "tcp" /\ task[t].action = "Proxy"
    /\ task[t].connect_errors > max_connect_errors

\* C17: the active backend changes only in a step of a Proxy-classified TCP
\* connection that has read an error count strictly above max_connect_errors;
\* only a Proxy-classified TCP connection is ever in the failover check, and
\* one that read a count at or below the maximum goes to its backend without
\* a swap; a Proxy-classified connection that is past its match has called the
\* Proxy backend, whether or not it swapped.
C17_OnlyProxyTcpAboveMaxRotates ==
    /\ [][ssconf' # ssconf
            => \E t \in Tasks :
                   /\ Rotating(t) /\ task'[t] # task[t]
                   /\ \A u \in Tasks \ {t} : task'[u] = task[u]]_vars
    /\ [](\A t \in Tasks :
            /\ task[t].pc \in {"connect_errors", "name", "change_conf", "panicked"}
                 => task[t].kind = "tcp" /\ task[t].action = "Proxy"
            /\ task[t].pc = "change_conf"
                 => task[t].connect_errors > max_connect_errors
            /\ task[t].swapped
                 => /\ task[t].kind = "tcp" /\ task[t].action = "Proxy"
                    /\ task[t].connect_errors > max_connect_errors
            /\ task[t].pc = "proxy" /\ task[t].kind = "tcp"
               /\ task[t].connect_errors <= max_connect_errors
                 => ~task[t].swapped
            /\ task[t].action = "Proxy" /\ ~QueryFailed(t)
               /\ task[t].pc \in {"remove", "print", "return"}
                 => Range(task[t].trace) \cap {"proxy"} # {})

\* a Proxy-classified TCP connection has swapped and is in its backend while
\* another read a count at the maximum and is in its backend without a swap,
\* the active backend being the one the first installed
C17_Witness ==
    \E t, u \in Tasks :
        /\ task[t].pc = "proxy" /\ task[t].kind = "tcp" /\ task[t].swapped
        /\ ssconf.pos = task[t].new_pos /\ ssconf.pos # task[t].swap_pos
        /\ task[u].pc = "proxy" /\ task[u].kind = "tcp" /\ ~task[u].swapped
        /\ task[u].connect_errors = max_connect_errors

\* every backend of a list of distinct names is the active one again and again
EveryBackendRecurs ==
    \A i \in 0 .. (MaxServers - 1) :
        []<>(DistinctNames(server_configs) /\ i < N => ssconf.pos = i)

\* each change of the active backend, in a list of distinct names, is to the
\* next entry of the list
NextInListOrder ==
    [][DistinctNames(server_configs) /\ ssconf' # ssconf
          => ssconf'.pos = (ssconf.pos + 1) % N]_vars

\* C18: with the error count above the maximum and Proxy-classified TCP
\* connections arriving without end, each running its check, every configured
\* backend becomes the active one infinitely often, and each change of the
\* active backend goes to the next entry of the configured list, the last one
\* being followed by the first.  (Stated for lists of distinct names.)
C18_RoundRobinForever ==
    EveryBackendRecurs /\ NextInListOrder

\* the tasks that hold the guard of the registry's mutex
Holders == { t \in Tasks : task[t].guard }

\* where a task is in a probe, in the failover check, in a backend's handler
\* or at the lifecycle print
OutsidePcs ==
    {"probe", "connect_errors", "name", "change_conf", "direct", "proxy",
     "print"}

\* C19: a task that holds the registry's lock is in the map insert or in the
\* map remove and nowhere else, and at most one task holds it; a task in a
\* probe, in the failover check, in a backend's handler or at the print does
\* not hold it, so that whenever no task is in the insert or the remove
\* itself the lock is free for a task that wants to register or deregister.
C19_LockOnlyAroundMapOperation ==
    /\ Cardinality(Holders) <= 1
    /\ \A t \in Tasks :
         /\ task[t].guard => task[t].pc \in {"inserting", "removing"}
         /\ task[t].pc \in OutsidePcs \cup {"idle", "resolved", "return"}
              => ~task[t].guard
    /\ (\A t \in Tasks : task[t].pc \notin {"inserting", "removing"})
         => unlocked

\* one task is in a backend's handler, having released the lock, and another
\* holds the lock for its insert
C19_Witness ==
    \E t, u \in Tasks :
        /\ task[t].pc \in {"direct", "proxy"} /\ task[t].kind = "tcp"
        /\ task[t].index \in DOMAIN connections
        /\ task[u].pc = "inserting" /\ task[u].guard

\* one task is at the print, having released the lock, and another holds the
\* lock for its remove
C19_WitnessPrint ==
    \E t, u \in Tasks :
        /\ task[t].pc = "print" /\ task[t].conn # {}
        /\ task[u].pc = "removing" /\ task[u].guard

\* the handle_tcp calls in progress
TcpInProgress == { t \in Tasks : InCall(t) /\ task[t].kind = "tcp" }

\* task t passes from action resolution to line 146 in this step
PassesResolution(t) ==
    /\ task[t].kind = "tcp" /\ task[t].pc = "resolved"
    /\ task'[t].pc # "resolved"

\* C20: every key of the registry is below the counter; the counter is the
\* number of ids issued, goes up by one in exactly the steps in which a TCP
\* flow passes from action resolution to line 146, and changes in no other
\* step; the registry has no more entries than there are handle_tcp calls in
\* progress.
C20_KeysBelowCounter ==
    /\ [](/\ \A k \in DOMAIN connections : k < counter
          /\ counter = Len(issued)
          /\ Cardinality(DOMAIN connections) <= Cardinality(TcpInProgress))
    /\ [][/\ counter' >= counter
          /\ (\E t \in Tasks : PassesResolution(t)) <=> counter' = counter + 1
          /\ (\A t \in Tasks : ~PassesResolution(t)) <=> counter' = counter]_vars

\* three ids were issued and the two calls in progress are both registered
C20_Witness ==
    /\ counter = 3
    /\ Cardinality(DOMAIN connections) = 2
    /\ Cardinality(TcpInProgress) = 2
====
